---- MODULE Spec2Model ----
(***************************************************************************)
(* bincode_embedded: a no_std binary encoder / decoder behind serde.       *)
(*                                                                         *)
(* The model follows src/src/lib.rs (CoreWrite, CoreRead, BufferWriter),   *)
(* src/src/serialize.rs (Serializer, Compound, encode_utf8) and            *)
(* src/src/deserialize.rs (Deserializer, the seq / map Access cursors,     *)
(* UTF8_CHAR_WIDTH).                                                       *)
(*                                                                         *)
(* Bytes are integers 0..255.  A byte slice ([u8], the bytes of a str) is   *)
(* held run-length encoded: a sequence of runs [b, n], n > 0 copies of     *)
(* byte b, adjacent runs of different bytes, so that equal slices are      *)
(* equal values and a slice of 65536 bytes is one run.  TLC's integers     *)
(* have 32 bits, so u32, u64 and u128 values are held as their base-256    *)
(* limbs, most significant limb first; u8, u16 and usize lengths are plain *)
(* integers.  A Rust panic (slice index out of range, unimplemented!()) is *)
(* the result "panic"; it ends the run.                                    *)
(***************************************************************************)
EXTENDS Integers, Sequences, FiniteSets, TLC

VARIABLES
    byteorder,  \* B : the byteorder::ByteOrder type parameter of the call
    sink,       \* W : which CoreWrite implementation the serializer writes to
    writer,     \* the BufferWriter: [buffer, index]
    ser,        \* the last call on the writer / serializer and its result
    value,      \* the value handed to serialize()
    input,      \* the buffer the &[u8] source was created over
    reader,     \* the &[u8] source: the view of input that remains
    de          \* the last call on the source / deserializer and its result

vars == <<byteorder, sink, writer, ser, value, input, reader, de>>

(***************************************************************************)
(* Bounds of the model.                                                    *)
(***************************************************************************)
MaxCap == 3         \* largest capacity of the buffer in the sink machine
MaxWrite == 2       \* longest slice handed to write_all in the sink machine
MaxInput == 4       \* longest source buffer in the source machine
MaxRequest == 4     \* largest read_range request in the source machine
MaxPad == 1
MaxElems == 3
MaxShort == 1         \* most bytes of capacity beyond what serialize() needs

(***************************************************************************)
(* Helpers.                                                                *)
(***************************************************************************)
Min(a, b) == IF a <= b THEN a ELSE b

BE == "BigEndian"
LE == "LittleEndian"
ByteOrders == {BE, LE}

RefMut == "&mut BufferWriter"
Owned == "BufferWriter"
Sinks == {RefMut, Owned}

None == <<>>
Some(x) == <<x>>

RECURSIVE Reverse(_)
Reverse(s) == IF s = <<>> THEN <<>> ELSE Reverse(Tail(s)) \o <<Head(s)>>

(***************************************************************************)
(* Byte slices.                                                            *)
(***************************************************************************)
\* n copies of byte b: [b; n]
Run(b, n) == IF n = 0 THEN <<>> ELSE <<[b |-> b, n |-> n]>>

Zeros(n) == Run(0, n)

\* s.len()
RECURSIVE BLen(_)
BLen(s) == IF s = <<>> THEN 0 ELSE Head(s).n + BLen(Tail(s))

\* s[i - 1] (positions are counted from 1)
RECURSIVE BAt(_, _)
BAt(s, i) == IF i <= Head(s).n THEN Head(s).b ELSE BAt(Tail(s), i - Head(s).n)

\* &s[..k]
RECURSIVE BTake(_, _)
BTake(s, k) ==
    IF k = 0 \/ s = <<>> THEN <<>>
    ELSE IF Head(s).n <= k THEN <<Head(s)>> \o BTake(Tail(s), k - Head(s).n)
    ELSE Run(Head(s).b, k)

\* &s[k..]
RECURSIVE BDrop(_, _)
BDrop(s, k) ==
    IF k = 0 \/ s = <<>> THEN s
    ELSE IF Head(s).n <= k THEN BDrop(Tail(s), k - Head(s).n)
    ELSE Run(Head(s).b, Head(s).n - k) \o Tail(s)

\* s followed by t
BCat(s, t) ==
    IF s = <<>> THEN t
    ELSE IF t = <<>> THEN s
    ELSE IF s[Len(s)].b = Head(t).b
    THEN SubSeq(s, 1, Len(s) - 1) \o Run(Head(t).b, s[Len(s)].n + Head(t).n) \o Tail(t)
    ELSE s \o t

\* s[i - 1] = b
BSet(s, i, b) == BCat(BCat(BTake(s, i - 1), Run(b, 1)), BDrop(s, i))

\* The slice of the bytes listed in the sequence q, and the bytes of a slice
\* listed as a sequence.
RECURSIVE BOf(_)
BOf(q) == IF q = <<>> THEN <<>> ELSE BCat(Run(Head(q), 1), BOf(Tail(q)))

BToSeq(s) == [i \in 1..BLen(s) |-> BAt(s, i)]

(***************************************************************************)
(* lib.rs: the metadata widths.                                            *)
(***************************************************************************)
U8Range == 256             \* u8::MAX + 1
U16Range == 65536          \* u16::MAX + 1
EnumVariantType(n) == n % U8Range
UnitVariantType(n) == n % U8Range
SequenceLengthType(n) == n % U16Range
StrLenType(n) == n % U16Range
SliceLenType(n) == n % U16Range
MapLenType(n) == n % U8Range
StructVariantType(n) == n % U8Range

(***************************************************************************)
(* lib.rs: BufferWriter and its two CoreWrite implementations.             *)
(***************************************************************************)
BufferWriter_new(buffer) == [buffer |-> buffer, index |-> 0]

written_len(w) == w.index

written_buffer_whole(w) == w.buffer

written_buffer(w) == BTake(w.buffer, w.index)

write_RefMut_keeps_index(w, val) ==
    IF w.index >= BLen(w.buffer)
    THEN [w |-> w, res |-> "BufferTooSmall"]
    ELSE [w |-> [buffer |-> BSet(w.buffer, w.index + 1, val),
                 index |-> w.index],
          res |-> "Ok"]

\* impl CoreWrite for &mut BufferWriter: checks the capacity first.
write_RefMut(w, val) ==
    IF w.index >= BLen(w.buffer)
    THEN [w |-> w, res |-> "BufferTooSmall"]
    ELSE [w |-> [buffer |-> BSet(w.buffer, w.index + 1, val),
                 index |-> w.index + 1],
          res |-> "Ok"]

\* impl CoreWrite for BufferWriter: no check; buffer[index] panics when
\* index = buffer.len(), before anything is stored.
write_Owned(w, val) ==
    IF w.index >= BLen(w.buffer)
    THEN [w |-> w, res |-> "panic"]
    ELSE [w |-> [buffer |-> BSet(w.buffer, w.index + 1, val),
                 index |-> w.index + 1],
          res |-> "Ok"]

write(W, w, val) == IF W = RefMut THEN write_RefMut(w, val) ELSE write_Owned(w, val)

\* CoreWrite::write_all: write() each byte in turn, stop at the first failure.
\* The k bytes that fit are stored by k successful write() calls; the call
\* that does not fit decides the result.
write_all(W, w, val) ==
    LET room == BLen(w.buffer) - w.index
        k == Min(BLen(val), room)
        stored == [buffer |-> BCat(BCat(BTake(w.buffer, w.index), BTake(val, k)),
                                   BDrop(w.buffer, w.index + k)),
                   index |-> w.index + k]
    IN IF k = BLen(val) THEN [w |-> stored, res |-> "Ok"]
       ELSE write(W, stored, BAt(val, k + 1))

(***************************************************************************)
(* lib.rs: CoreRead for &[u8].                                             *)
(***************************************************************************)
\* &self[..len] panics when len > self.len(); the source is then untouched.
read_range_keeps_cursor(r, len) ==
    IF len > BLen(r)
    THEN [r |-> r, res |-> "panic", val |-> <<>>]
    ELSE [r |-> r, res |-> "Ok", val |-> BTake(r, len)]

read_range_skips_a_byte(r, len) ==
    IF len > BLen(r)
    THEN [r |-> r, res |-> "panic", val |-> <<>>]
    ELSE [r |-> BDrop(r, len + 1), res |-> "Ok", val |-> BTake(r, len)]

read_range(r, len) ==
    IF len > BLen(r)
    THEN [r |-> r, res |-> "panic", val |-> <<>>]
    ELSE [r |-> BDrop(r, len), res |-> "Ok", val |-> BTake(r, len)]

\* CoreRead::read, the default: read_range(1)?, then buff[0].
read(r) ==
    LET buff == read_range(r, 1)
    IN IF buff.res # "Ok" THEN [r |-> buff.r, res |-> buff.res, val |-> 0]
       ELSE [r |-> buff.r, res |-> "Ok", val |-> BAt(buff.val, 1)]

(***************************************************************************)
(* serialize.rs: the values serialize() is handed.                         *)
(*                                                                         *)
(* A value is a record whose field k names its Rust type and whose field v *)
(* holds its content:                                                      *)
(*   bool: BOOLEAN; u8, u16: an integer; u32, u64, u128: 4, 8, 16 limbs;   *)
(*   char: the code point; str: the slice of its UTF-8 bytes;              *)
(*   bytes: a byte slice of a type that calls serialize_bytes;             *)
(*   slice: a &[u8] (serde serializes it as a sequence of u8);             *)
(*   unit: nothing; option: None or Some(value), "of" is the inner type;   *)
(*   tuple, tuple_struct, struct: the fields in declaration order (an      *)
(*   array is a tuple); unit_struct: nothing; newtype_struct: one field;   *)
(*   seq: the elements, "of" the element type;                             *)
(*   iter: the elements of a sequence serialized with an unknown length;   *)
(*   map: the <<key, value>> pairs in iteration order;                     *)
(*   enum: variant idx of the given shape with its payload fields.         *)
(***************************************************************************)
Ok(w) == [w |-> w, res |-> "Ok"]

\* .map_err(SerializeError::Write)
map_err_Write(r) == [w |-> r.w, res |-> IF r.res = "BufferTooSmall" THEN "Write" ELSE r.res]

\* byteorder: B::write_u16 and the wider B::write_uN on limbs.
write_u16_always_big_endian(B, v) == BOf(<<v \div 256, v % 256>>)

write_u16(B, v) ==
    IF B = BE THEN BOf(<<v \div 256, v % 256>>) ELSE BOf(<<v % 256, v \div 256>>)

write_limbs(B, limbs) == IF B = BE THEN BOf(limbs) ELSE BOf(Reverse(limbs))

WideKinds == {"u32", "u64", "u128", "i32", "i64", "i128"}

\* B::write_i16: the two's complement bits of v (v as u16), as write_u16.
write_i16(B, v) == write_u16(B, v % U16Range)

TAG_CONT == 128
TAG_TWO_B == 192
TAG_THREE_B == 224
TAG_FOUR_B == 240
MAX_ONE_B == 128
MAX_TWO_B == 2048
MAX_THREE_B == 65536

\* encode_utf8(c).as_slice(): buf[pos..]. The tag bits are clear in the
\* masked operand, so | is +.
encode_utf8_three_bytes_at_max(code) ==
    IF code < MAX_ONE_B THEN <<code>>
    ELSE IF code < MAX_TWO_B
    THEN <<((code \div 64) % 32) + TAG_TWO_B, (code % 64) + TAG_CONT>>
    ELSE IF code <= MAX_THREE_B
    THEN <<((code \div 4096) % 16) + TAG_THREE_B, ((code \div 64) % 64) + TAG_CONT,
           (code % 64) + TAG_CONT>>
    ELSE <<((code \div 262144) % 8) + TAG_FOUR_B, ((code \div 4096) % 64) + TAG_CONT,
           ((code \div 64) % 64) + TAG_CONT, (code % 64) + TAG_CONT>>

encode_utf8(code) ==
    IF code < MAX_ONE_B THEN <<code>>
    ELSE IF code < MAX_TWO_B
    THEN <<((code \div 64) % 32) + TAG_TWO_B, (code % 64) + TAG_CONT>>
    ELSE IF code < MAX_THREE_B
    THEN <<((code \div 4096) % 16) + TAG_THREE_B, ((code \div 64) % 64) + TAG_CONT,
           (code % 64) + TAG_CONT>>
    ELSE <<((code \div 262144) % 8) + TAG_FOUR_B, ((code \div 4096) % 64) + TAG_CONT,
           ((code \div 64) % 64) + TAG_CONT, (code % 64) + TAG_CONT>>

serialize_bool(W, w, v) == map_err_Write(write(W, w, IF v THEN 1 ELSE 0))

\* v as u8
serialize_i8(W, w, v) == map_err_Write(write(W, w, v % U8Range))

serialize_i16(W, B, w, v) == map_err_Write(write_all(W, w, write_i16(B, v)))

serialize_u8(W, w, v) == map_err_Write(write(W, w, v))

serialize_u16(W, B, w, v) == map_err_Write(write_all(W, w, write_u16(B, v)))

\* serialize_u32 / serialize_u64 / serialize_u128 and serialize_i32 /
\* serialize_i64 / serialize_i128: a buffer of 4 / 8 / 16 bytes filled by
\* B::write_uN / B::write_iN, then write_all. A signed value is held as the
\* limbs of its two's complement bits.
serialize_wide(W, B, w, limbs) == map_err_Write(write_all(W, w, write_limbs(B, limbs)))

serialize_char(W, w, v) == map_err_Write(write_all(W, w, BOf(encode_utf8(v))))

serialize_enum_variant_index(W, w, variant_index) ==
    serialize_u8(W, w, EnumVariantType(variant_index))

serialize_unit_variant(W, w, variant_index) ==
    serialize_u8(W, w, UnitVariantType(variant_index))

serialize_struct_variant(W, w, variant_index) ==
    serialize_u8(W, w, StructVariantType(variant_index))

\* Mutant of serialize_seq_len: an unknown length is written as 0.
serialize_seq_len_unknown_as_zero(W, B, w, seq_len) ==
    serialize_u16(W, B, w, IF seq_len = None THEN 0 ELSE SequenceLengthType(seq_len[1]))

serialize_seq_len(W, B, w, seq_len) ==
    IF seq_len = None THEN [w |-> w, res |-> "SequenceMustHaveLength"]
    ELSE serialize_u16(W, B, w, SequenceLengthType(seq_len[1]))

serialize_str_len(W, B, w, str_len) == serialize_u16(W, B, w, StrLenType(str_len))

serialize_slice_len(W, B, w, slice_len) == serialize_u16(W, B, w, SliceLenType(slice_len))

serialize_map_len(W, w, map_len) ==
    IF map_len = None THEN [w |-> w, res |-> "SequenceMustHaveLength"]
    ELSE serialize_u8(W, w, MapLenType(map_len[1]))

serialize_str(W, B, w, v) ==
    LET l == serialize_str_len(W, B, w, BLen(v))
    IN IF l.res # "Ok" THEN l ELSE map_err_Write(write_all(W, l.w, v))

serialize_bytes(W, B, w, v) ==
    LET l == serialize_slice_len(W, B, w, BLen(v))
    IN IF l.res # "Ok" THEN l ELSE map_err_Write(write_all(W, l.w, v))

serialize_none(W, w) == map_err_Write(write(W, w, 0))

serialize_unit(w) == Ok(w)

serialize_unit_struct(w) == Ok(w)

\* serialize_seq / serialize_map: the length first, then the Compound.
serialize_seq(W, B, w, len) == serialize_seq_len(W, B, w, len)

serialize_map(W, w, len) == serialize_map_len(W, w, len)

\* serialize_tuple / serialize_tuple_struct / serialize_struct: the Compound
\* only. Compound::end: Ok(()).
serialize_tuple(w) == Ok(w)

serialize_tuple_variant(W, w, variant_index) ==
    serialize_enum_variant_index(W, w, variant_index)

Compound_end_writes_a_byte(w) ==
    IF w.index < BLen(w.buffer)
    THEN Ok([buffer |-> BSet(w.buffer, w.index + 1, 0), index |-> w.index + 1])
    ELSE Ok(w)

Compound_end(w) == Ok(w)

RECURSIVE Serialize(_, _, _, _)
RECURSIVE SerializeFields(_, _, _, _)
RECURSIVE SerializeEntries(_, _, _, _)

serialize_some_ignores_tag_error(W, B, w, v) ==
    LET t == map_err_Write(write(W, w, 1))
    IN Serialize(W, B, t.w, v)

serialize_some(W, B, w, v) ==
    LET t == map_err_Write(write(W, w, 1))
    IN IF t.res # "Ok" THEN t ELSE Serialize(W, B, t.w, v)

\* serialize_newtype_struct: value.serialize(self)
serialize_newtype_struct(W, B, w, v) == Serialize(W, B, w, v)

serialize_newtype_variant(W, B, w, variant_index, v) ==
    LET t == serialize_enum_variant_index(W, w, variant_index)
    IN IF t.res # "Ok" THEN t ELSE Serialize(W, B, t.w, v)

\* Compound::serialize_element / serialize_field / serialize_key /
\* serialize_value: value.serialize(&mut *self.ser).
Compound_serialize_element(W, B, w, v) == Serialize(W, B, w, v)

\* The caller of a Compound: each field in order with ?, then end().
SerializeFields(W, B, w, vs) ==
    IF vs = <<>> THEN Compound_end(w)
    ELSE LET f == Compound_serialize_element(W, B, w, Head(vs))
         IN IF f.res # "Ok" THEN f ELSE SerializeFields(W, B, f.w, Tail(vs))

\* The caller of a map Compound: serialize_key, serialize_value per pair.
SerializeEntries(W, B, w, es) ==
    IF es = <<>> THEN Compound_end(w)
    ELSE LET key == Compound_serialize_element(W, B, w, Head(es)[1])
             val == IF key.res # "Ok" THEN key
                    ELSE Compound_serialize_element(W, B, key.w, Head(es)[2])
         IN IF val.res # "Ok" THEN val ELSE SerializeEntries(W, B, val.w, Tail(es))

U8Value(b) == [k |-> "u8", v |-> b]

U8Values(bs) == [i \in 1..Len(bs) |-> U8Value(bs[i])]

\* value.serialize(serializer): the Serialize implementation of the value's
\* type calls the serializer method of its shape.
Serialize(W, B, w, x) ==
    CASE x.k = "bool" -> serialize_bool(W, w, x.v)
      [] x.k = "u8" -> serialize_u8(W, w, x.v)
      [] x.k = "u16" -> serialize_u16(W, B, w, x.v)
      [] x.k = "i8" -> serialize_i8(W, w, x.v)
      [] x.k = "i16" -> serialize_i16(W, B, w, x.v)
      [] x.k \in WideKinds -> serialize_wide(W, B, w, x.v)
      [] x.k = "char" -> serialize_char(W, w, x.v)
      [] x.k = "str" -> serialize_str(W, B, w, x.v)
      [] x.k = "bytes" -> serialize_bytes(W, B, w, x.v)
      [] x.k = "unit" -> serialize_unit(w)
      [] x.k = "unit_struct" -> serialize_unit_struct(w)
      [] x.k = "newtype_struct" -> serialize_newtype_struct(W, B, w, x.v[1])
      [] x.k = "option" ->
            IF x.v = None THEN serialize_none(W, w) ELSE serialize_some(W, B, w, x.v[1])
      [] x.k \in {"tuple", "tuple_struct", "struct"} ->
            LET c == serialize_tuple(w)
            IN IF c.res # "Ok" THEN c ELSE SerializeFields(W, B, c.w, x.v)
      [] x.k = "slice" ->
            LET c == serialize_seq(W, B, w, Some(BLen(x.v)))
            IN IF c.res # "Ok" THEN c ELSE SerializeFields(W, B, c.w, U8Values(BToSeq(x.v)))
      [] x.k = "seq" ->
            LET c == serialize_seq(W, B, w, Some(Len(x.v)))
            IN IF c.res # "Ok" THEN c ELSE SerializeFields(W, B, c.w, x.v)
      [] x.k = "iter" ->
            LET c == serialize_seq(W, B, w, None)
            IN IF c.res # "Ok" THEN c ELSE SerializeFields(W, B, c.w, x.v)
      [] x.k = "map" ->
            LET c == serialize_map(W, w, Some(Len(x.v)))
            IN IF c.res # "Ok" THEN c ELSE SerializeEntries(W, B, c.w, x.v)
      [] x.k = "enum" ->
            CASE x.shape = "unit" -> serialize_unit_variant(W, w, x.idx)
              [] x.shape = "newtype" -> serialize_newtype_variant(W, B, w, x.idx, x.v[1])
              [] x.shape = "tuple" ->
                    LET c == serialize_tuple_variant(W, w, x.idx)
                    IN IF c.res # "Ok" THEN c ELSE SerializeFields(W, B, c.w, x.v)
              [] x.shape = "struct" ->
                    LET c == serialize_struct_variant(W, w, x.idx)
                    IN IF c.res # "Ok" THEN c ELSE SerializeFields(W, B, c.w, x.v)

\* serialize(value, writer): a Serializer over the writer, value.serialize.
serialize(W, B, w, x) == Serialize(W, B, w, x)

(***************************************************************************)
(* deserialize.rs.  A deserializer call returns [r, res, val]: the source  *)
(* afterwards, "Ok" or the DeserializeError (or "panic"), and the value.   *)
(* A type is a record whose field k names it; option and seq carry the     *)
(* inner type in "of", tuple and struct their field types in "of", map the *)
(* types of its keys and values.                                           *)
(***************************************************************************)
Unit == [k |-> "unit"]

Fail(r, e) == [r |-> r, res |-> e, val |-> Unit]

\* byteorder: B::read_u16 and the wider B::read_uN on limbs.
read_u16(B, buf) ==
    IF B = BE THEN BAt(buf, 1) * 256 + BAt(buf, 2) ELSE BAt(buf, 2) * 256 + BAt(buf, 1)

read_limbs(B, buf) == IF B = BE THEN BToSeq(buf) ELSE Reverse(BToSeq(buf))

UTF8_CHAR_WIDTH ==
    [b \in 0..255 |->
        IF b <= 127 THEN 1
        ELSE IF b <= 193 THEN 0
        ELSE IF b <= 223 THEN 2
        ELSE IF b <= 239 THEN 3
        ELSE IF b <= 244 THEN 4
        ELSE 0]

\* Mutant of utf8_char_width: 0xC0 and 0xC1 start a two-byte scalar.
utf8_char_width_c0_is_lead(b) == IF b \in {192, 193} THEN 2 ELSE UTF8_CHAR_WIDTH[b]

utf8_char_width(b) == UTF8_CHAR_WIDTH[b]

\* core::str::from_utf8 on one scalar: the well-formed byte sequences of the
\* Unicode standard (table 3-7), which exclude overlong forms, surrogates
\* and code points above 0x10FFFF.
Cont(b) == b >= 128 /\ b <= 191

WellFormedScalar(s) ==
    CASE Len(s) = 1 -> s[1] <= 127
      [] Len(s) = 2 -> s[1] >= 194 /\ s[1] <= 223 /\ Cont(s[2])
      [] Len(s) = 3 ->
            /\ s[1] >= 224 /\ s[1] <= 239
            /\ Cont(s[2]) /\ Cont(s[3])
            /\ (s[1] = 224 => s[2] >= 160)
            /\ (s[1] = 237 => s[2] <= 159)
      [] Len(s) = 4 ->
            /\ s[1] >= 240 /\ s[1] <= 244
            /\ Cont(s[2]) /\ Cont(s[3]) /\ Cont(s[4])
            /\ (s[1] = 240 => s[2] >= 144)
            /\ (s[1] = 244 => s[2] <= 143)
      [] OTHER -> FALSE

\* core::str::from_utf8 on a slice: every byte that is not a continuation
\* byte starts a well-formed scalar, and every continuation byte belongs to
\* the scalar started at most 3 bytes before it. A run of ASCII bytes is
\* well-formed at each of its positions.
RunStart(buf, j) == 1 + BLen(SubSeq(buf, 1, j - 1))

Utf8At(buf, i) ==
    IF Cont(BAt(buf, i))
    THEN \E d \in 1..3 :
            i - d >= 1 /\ ~Cont(BAt(buf, i - d)) /\ utf8_char_width(BAt(buf, i - d)) > d
    ELSE LET w == utf8_char_width(BAt(buf, i))
         IN w > 0 /\ i + w - 1 <= BLen(buf)
            /\ WellFormedScalar(BToSeq(BTake(BDrop(buf, i - 1), w)))

from_utf8(buf) ==
    \A j \in 1..Len(buf) :
        buf[j].b > 127 =>
            \A i \in RunStart(buf, j)..(RunStart(buf, j) + buf[j].n - 1) : Utf8At(buf, i)

\* str::from_utf8(..)?.chars().next(): the code point of one well-formed scalar.
first_char(s) ==
    CASE Len(s) = 1 -> s[1]
      [] Len(s) = 2 -> (s[1] % 32) * 64 + (s[2] % 64)
      [] Len(s) = 3 -> (s[1] % 16) * 4096 + (s[2] % 64) * 64 + (s[3] % 64)
      [] Len(s) = 4 -> (s[1] % 8) * 262144 + (s[2] % 64) * 4096 + (s[3] % 64) * 64 + (s[4] % 64)

get_slice_length(B, r) ==
    LET buf == read_range(r, 2)
    IN IF buf.res # "Ok" THEN [r |-> buf.r, res |-> buf.res, val |-> 0]
       ELSE [r |-> buf.r, res |-> "Ok", val |-> read_u16(B, buf.val)]

get_str_length(B, r) ==
    LET buf == read_range(r, 2)
    IN IF buf.res # "Ok" THEN [r |-> buf.r, res |-> buf.res, val |-> 0]
       ELSE [r |-> buf.r, res |-> "Ok", val |-> read_u16(B, buf.val)]

get_seq_len(B, r) ==
    LET buf == read_range(r, 2)
    IN IF buf.res # "Ok" THEN [r |-> buf.r, res |-> buf.res, val |-> 0]
       ELSE [r |-> buf.r, res |-> "Ok", val |-> read_u16(B, buf.val)]

\* .map_err(DeserializeError::Read): &[u8] has Error = () and never returns it.
map_err_Read(e) == IF e = "Err" THEN "Read" ELSE e

deserialize_u8(r) ==
    LET b == read(r)
    IN IF b.res # "Ok" THEN Fail(b.r, map_err_Read(b.res))
       ELSE [r |-> b.r, res |-> "Ok", val |-> U8Value(b.val)]

\* Mutant of deserialize_bool: every byte but 0 is true.
deserialize_bool_nonzero_is_true(r) ==
    LET b == deserialize_u8(r)
    IN IF b.res # "Ok" THEN b
       ELSE [r |-> b.r, res |-> "Ok", val |-> [k |-> "bool", v |-> b.val.v # 0]]

deserialize_bool(r) ==
    LET b == deserialize_u8(r)
    IN IF b.res # "Ok" THEN b
       ELSE IF b.val.v = 1 THEN [r |-> b.r, res |-> "Ok", val |-> [k |-> "bool", v |-> TRUE]]
       ELSE IF b.val.v = 0 THEN [r |-> b.r, res |-> "Ok", val |-> [k |-> "bool", v |-> FALSE]]
       ELSE [r |-> b.r, res |-> "InvalidBoolValue", val |-> b.val]

deserialize_u16(B, r) ==
    LET buffer == read_range(r, 2)
    IN IF buffer.res # "Ok" THEN Fail(buffer.r, map_err_Read(buffer.res))
       ELSE [r |-> buffer.r, res |-> "Ok", val |-> [k |-> "u16", v |-> read_u16(B, buffer.val)]]

\* B::read_i16: read_u16 as i16.
read_i16(B, buf) ==
    LET u == read_u16(B, buf) IN IF u >= U16Range \div 2 THEN u - U16Range ELSE u

\* val as i8
deserialize_i8(r) ==
    LET b == read(r)
    IN IF b.res # "Ok" THEN Fail(b.r, map_err_Read(b.res))
       ELSE [r |-> b.r, res |-> "Ok",
             val |-> [k |-> "i8", v |-> IF b.val >= U8Range \div 2 THEN b.val - U8Range
                                        ELSE b.val]]

deserialize_i16(B, r) ==
    LET buffer == read_range(r, 2)
    IN IF buffer.res # "Ok" THEN Fail(buffer.r, map_err_Read(buffer.res))
       ELSE [r |-> buffer.r, res |-> "Ok", val |-> [k |-> "i16", v |-> read_i16(B, buffer.val)]]

\* deserialize_u32 / deserialize_u64 / deserialize_u128 and deserialize_i32 /
\* deserialize_i64 / deserialize_i128: read_range(4 / 8 / 16), then B::read_uN
\* / B::read_iN.
WidthOf(k) ==
    CASE k \in {"u32", "i32"} -> 4 [] k \in {"u64", "i64"} -> 8 [] k \in {"u128", "i128"} -> 16

deserialize_wide(B, r, k) ==
    LET buffer == read_range(r, WidthOf(k))
    IN IF buffer.res # "Ok" THEN Fail(buffer.r, map_err_Read(buffer.res))
       ELSE [r |-> buffer.r, res |-> "Ok", val |-> [k |-> k, v |-> read_limbs(B, buffer.val)]]

\* The loop over buf.iter_mut().take(width).skip(1): width - 1 calls of read().
RECURSIVE read_each(_, _)
read_each(r, n) ==
    IF n = 0 THEN [r |-> r, res |-> "Ok", val |-> <<>>]
    ELSE LET b == read(r)
         IN IF b.res # "Ok" THEN [r |-> b.r, res |-> b.res, val |-> <<>>]
            ELSE LET rest == read_each(b.r, n - 1)
                 IN [r |-> rest.r, res |-> rest.res, val |-> <<b.val>> \o rest.val]

deserialize_char(r) ==
    LET b == read(r)
        width == utf8_char_width(b.val)
        more == read_each(b.r, width - 1)
        buf == <<b.val>> \o more.val
    IN IF b.res # "Ok" THEN Fail(b.r, map_err_Read(b.res))
       ELSE IF width = 1 THEN [r |-> b.r, res |-> "Ok", val |-> [k |-> "char", v |-> b.val]]
       ELSE IF width = 0 THEN Fail(b.r, "InvalidCharEncoding")
       ELSE IF more.res # "Ok" THEN Fail(more.r, map_err_Read(more.res))
       ELSE IF ~from_utf8(BOf(buf)) THEN Fail(more.r, "Utf8")
       ELSE [r |-> more.r, res |-> "Ok", val |-> [k |-> "char", v |-> first_char(buf)]]

deserialize_str(B, r) ==
    LET length == get_str_length(B, r)
        buf == read_range(length.r, length.val)
    IN IF length.res # "Ok" THEN Fail(length.r, map_err_Read(length.res))
       ELSE IF buf.res # "Ok" THEN Fail(buf.r, map_err_Read(buf.res))
       ELSE IF ~from_utf8(buf.val) THEN Fail(buf.r, "Utf8")
       ELSE [r |-> buf.r, res |-> "Ok", val |-> [k |-> "str", v |-> buf.val]]

\* t is the type asked for: "bytes" or "slice" (&[u8]); both are borrowed bytes.
deserialize_bytes(B, r, t) ==
    LET length == get_slice_length(B, r)
        buf == read_range(length.r, length.val)
    IN IF length.res # "Ok" THEN Fail(length.r, map_err_Read(length.res))
       ELSE IF buf.res # "Ok" THEN Fail(buf.r, map_err_Read(buf.res))
       ELSE [r |-> buf.r, res |-> "Ok", val |-> [k |-> t.k, v |-> buf.val]]

deserialize_unit(r) == [r |-> r, res |-> "Ok", val |-> Unit]

deserialize_unit_struct(r) == [r |-> r, res |-> "Ok", val |-> [k |-> "unit_struct"]]

\* unimplemented!()
deserialize_enum(r) == Fail(r, "panic")

(***************************************************************************)
(* deserialize.rs: the compound shapes.                                    *)
(***************************************************************************)
RECURSIVE Deserialize(_, _, _)
RECURSIVE VisitFields(_, _, _, _)
RECURSIVE VisitSeq(_, _, _, _)
RECURSIVE VisitMap(_, _, _, _, _)

\* Mutant of deserialize_option: every tag but 0 is Some.
deserialize_option_nonzero_is_some(B, r, t) ==
    LET tag == read(r)
        some == Deserialize(B, tag.r, t.of)
    IN IF tag.res # "Ok" THEN Fail(tag.r, map_err_Read(tag.res))
       ELSE IF tag.val = 0
       THEN [r |-> tag.r, res |-> "Ok", val |-> [k |-> "option", of |-> t.of, v |-> None]]
       ELSE IF some.res # "Ok" THEN some
       ELSE [r |-> some.r, res |-> "Ok",
             val |-> [k |-> "option", of |-> t.of, v |-> Some(some.val)]]

deserialize_option(B, r, t) ==
    LET tag == read(r)
        some == Deserialize(B, tag.r, t.of)
    IN IF tag.res # "Ok" THEN Fail(tag.r, map_err_Read(tag.res))
       ELSE IF tag.val = 0
       THEN [r |-> tag.r, res |-> "Ok", val |-> [k |-> "option", of |-> t.of, v |-> None]]
       ELSE IF tag.val = 1
       THEN IF some.res # "Ok" THEN some
            ELSE [r |-> some.r, res |-> "Ok",
                  val |-> [k |-> "option", of |-> t.of, v |-> Some(some.val)]]
       ELSE [r |-> tag.r, res |-> "InvalidOptionValue", val |-> U8Value(tag.val)]

\* Access::next_element_seed of deserialize_tuple and Access::next_key_seed of
\* deserialize_map: the count is decremented before the element is decoded.
\* The result carries the cursor: [len, r, res, val], val None or Some(value).
Access_next_element_seed(B, r, len, t) ==
    IF len > 0
    THEN LET e == Deserialize(B, r, t)
         IN IF e.res # "Ok" THEN [len |-> len - 1, r |-> e.r, res |-> e.res, val |-> None]
            ELSE [len |-> len - 1, r |-> e.r, res |-> "Ok", val |-> Some(e.val)]
    ELSE [len |-> len, r |-> r, res |-> "Ok", val |-> None]

Access_next_key_seed(B, r, len, t) ==
    IF len > 0
    THEN LET e == Deserialize(B, r, t)
         IN IF e.res # "Ok" THEN [len |-> len - 1, r |-> e.r, res |-> e.res, val |-> None]
            ELSE [len |-> len - 1, r |-> e.r, res |-> "Ok", val |-> Some(e.val)]
    ELSE [len |-> len, r |-> r, res |-> "Ok", val |-> None]

Access_next_value_seed(B, r, t) == Deserialize(B, r, t)

Access_size_hint(len) == Some(len)

\* The visitor of a tuple, array or struct with field types ts: one
\* next_element per field; a missing element is Error::custom, which panics.
\* Returns [r, res, val] with val the sequence of fields.
VisitFields(B, r, len, ts) ==
    IF ts = <<>> THEN [r |-> r, res |-> "Ok", val |-> <<>>]
    ELSE LET e == Access_next_element_seed(B, r, len, Head(ts))
         IN IF e.res # "Ok" THEN [r |-> e.r, res |-> e.res, val |-> <<>>]
            ELSE IF e.val = None THEN [r |-> e.r, res |-> "panic", val |-> <<>>]
            ELSE LET rest == VisitFields(B, e.r, e.len, Tail(ts))
                 IN [r |-> rest.r, res |-> rest.res, val |-> e.val \o rest.val]

\* The visitor of a sequence with element type t: next_element until None.
VisitSeq(B, r, len, t) ==
    LET e == Access_next_element_seed(B, r, len, t)
    IN IF e.res # "Ok" THEN [r |-> e.r, res |-> e.res, val |-> <<>>]
       ELSE IF e.val = None THEN [r |-> e.r, res |-> "Ok", val |-> <<>>]
       ELSE LET rest == VisitSeq(B, e.r, e.len, t)
            IN [r |-> rest.r, res |-> rest.res, val |-> e.val \o rest.val]

\* The visitor of a map: next_key until None, next_value after each key.
VisitMap(B, r, len, kt, vt) ==
    LET key == Access_next_key_seed(B, r, len, kt)
    IN IF key.res # "Ok" THEN [r |-> key.r, res |-> key.res, val |-> <<>>]
       ELSE IF key.val = None THEN [r |-> key.r, res |-> "Ok", val |-> <<>>]
       ELSE LET val == Access_next_value_seed(B, key.r, vt)
            IN IF val.res # "Ok" THEN [r |-> val.r, res |-> val.res, val |-> <<>>]
               ELSE LET rest == VisitMap(B, val.r, key.len, kt, vt)
                    IN [r |-> rest.r, res |-> rest.res,
                        val |-> << <<key.val[1], val.val>> >> \o rest.val]

\* deserialize_newtype_struct: visitor.visit_newtype_struct(self), which
\* decodes the wrapped value.
deserialize_newtype_struct(B, r, t) ==
    LET inner == Deserialize(B, r, t.of)
    IN IF inner.res # "Ok" THEN inner
       ELSE [r |-> inner.r, res |-> "Ok", val |-> [k |-> "newtype_struct", v |-> <<inner.val>>]]

\* deserialize_tuple / deserialize_tuple_struct / deserialize_struct: an
\* Access over len elements handed to the visitor of the type.
deserialize_tuple(B, r, len, t) ==
    LET fields == VisitFields(B, r, len, t.of)
    IN IF fields.res # "Ok" THEN Fail(fields.r, fields.res)
       ELSE [r |-> fields.r, res |-> "Ok", val |-> [k |-> t.k, v |-> fields.val]]

deserialize_seq(B, r, t) ==
    LET len == get_seq_len(B, r)
        elems == VisitSeq(B, len.r, len.val, t.of)
    IN IF len.res # "Ok" THEN Fail(len.r, map_err_Read(len.res))
       ELSE IF elems.res # "Ok" THEN Fail(elems.r, elems.res)
       ELSE [r |-> elems.r, res |-> "Ok", val |-> [k |-> "seq", of |-> t.of, v |-> elems.val]]

\* A usize count read as a u64 (usize is 64 bits wide). Every element the
\* model decodes takes at least one byte, so a count above the length of any
\* source is never counted down to zero and is held as MaxCount.
MaxCount == 16777216

usize_of_u64(limbs) ==
    IF \E i \in 1..5 : limbs[i] # 0 THEN MaxCount
    ELSE limbs[6] * 65536 + limbs[7] * 256 + limbs[8]

\* deserialize_map: len is a usize, and serde deserializes a usize with
\* deserialize_u64.
deserialize_map(B, r, t) ==
    LET len == deserialize_wide(B, r, "u64")
        entries == VisitMap(B, len.r, usize_of_u64(len.val.v), t.key, t.val)
    IN IF len.res # "Ok" THEN len
       ELSE IF entries.res # "Ok" THEN Fail(entries.r, entries.res)
       ELSE [r |-> entries.r, res |-> "Ok",
             val |-> [k |-> "map", key |-> t.key, val |-> t.val, v |-> entries.val]]

\* T::deserialize(deserializer): the Deserialize implementation of the type
\* asked for calls the deserializer method of its shape.
Deserialize(B, r, t) ==
    CASE t.k = "bool" -> deserialize_bool(r)
      [] t.k = "u8" -> deserialize_u8(r)
      [] t.k = "u16" -> deserialize_u16(B, r)
      [] t.k = "i8" -> deserialize_i8(r)
      [] t.k = "i16" -> deserialize_i16(B, r)
      [] t.k \in WideKinds -> deserialize_wide(B, r, t.k)
      [] t.k = "char" -> deserialize_char(r)
      [] t.k = "str" -> deserialize_str(B, r)
      [] t.k \in {"bytes", "slice"} -> deserialize_bytes(B, r, t)
      [] t.k = "unit" -> deserialize_unit(r)
      [] t.k = "unit_struct" -> deserialize_unit_struct(r)
      [] t.k = "newtype_struct" -> deserialize_newtype_struct(B, r, t)
      [] t.k = "option" -> deserialize_option(B, r, t)
      [] t.k \in {"tuple", "tuple_struct", "struct"} -> deserialize_tuple(B, r, Len(t.of), t)
      [] t.k = "seq" -> deserialize_seq(B, r, t)
      [] t.k = "map" -> deserialize_map(B, r, t)
      [] t.k = "enum" -> deserialize_enum(r)

\* deserialize(reader): a Deserializer over the reader, T::deserialize.
deserialize(B, r, t) == Deserialize(B, r, t)

\* The type of a value.
RECURSIVE TypeOf(_)
TypeOf(x) ==
    CASE x.k = "option" -> [k |-> "option", of |-> x.of]
      [] x.k \in {"tuple", "tuple_struct", "struct"} ->
            [k |-> x.k, of |-> [i \in 1..Len(x.v) |-> TypeOf(x.v[i])]]
      [] x.k = "newtype_struct" -> [k |-> x.k, of |-> TypeOf(x.v[1])]
      [] x.k \in {"seq", "iter"} -> [k |-> "seq", of |-> x.of]
      [] x.k = "map" -> [k |-> "map", key |-> x.key, val |-> x.val]
      [] OTHER -> [k |-> x.k]

(***************************************************************************)
(* Values and types of the model.                                          *)
(***************************************************************************)
NoValue == [k |-> "none"]

BoolT == [k |-> "bool"]
U8T == [k |-> "u8"]
U16T == [k |-> "u16"]
U32T == [k |-> "u32"]
U64T == [k |-> "u64"]
U128T == [k |-> "u128"]
StrT == [k |-> "str"]
BytesT == [k |-> "bytes"]
SliceT == [k |-> "slice"]
OptionT(t) == [k |-> "option", of |-> t]
TupleT(ts) == [k |-> "tuple", of |-> ts]

BoolValue(b) == [k |-> "bool", v |-> b]
U16Value(n) == [k |-> "u16", v |-> n]
U32Value(limbs) == [k |-> "u32", v |-> limbs]
U64Value(limbs) == [k |-> "u64", v |-> limbs]
U128Value(limbs) == [k |-> "u128", v |-> limbs]
StrValue(bytes) == [k |-> "str", v |-> bytes]
BytesValue(bytes) == [k |-> "bytes", v |-> bytes]
SliceValue(bytes) == [k |-> "slice", v |-> bytes]
OptionValue(t, o) == [k |-> "option", of |-> t, v |-> o]
TupleValue(fields) == [k |-> "tuple", v |-> fields]
StructValue(fields) == [k |-> "struct", v |-> fields]

SerIdle == [op |-> "new", arg |-> <<>>, res |-> "Ok"]
DeIdle(t) == [op |-> "new", ty |-> t, arg |-> <<>>, res |-> "Ok", val |-> NoValue]

(***************************************************************************)
(* The sink machine: a BufferWriter of a small capacity and a Serializer   *)
(* over it, driven by any sequence of calls.                               *)
(***************************************************************************)
SinkBytes == {0, 1, 255}

SinkSlices == UNION {[1..n -> SinkBytes] : n \in 0..MaxWrite}

SinkLens == {None, Some(0), Some(1), Some(258), Some(65536)}

Capacities == 0..MaxCap

Init ==
    /\ byteorder \in ByteOrders
    /\ sink \in Sinks
    /\ \E c \in Capacities : writer = BufferWriter_new(Zeros(c))
    /\ ser = SerIdle
    /\ value = NoValue
    /\ input = <<>>
    /\ reader = <<>>
    /\ de = DeIdle(NoValue)

SinkCall(op, arg, result) ==
    /\ ser.res # "panic"
    /\ writer' = result.w
    /\ ser' = [op |-> op, arg |-> arg, res |-> result.res]
    /\ UNCHANGED <<byteorder, sink, value, input, reader, de>>

Write == \E val \in SinkBytes : SinkCall("write", <<val>>, write(sink, writer, val))

WriteAll ==
    \E val \in SinkSlices : SinkCall("write_all", val, write_all(sink, writer, BOf(val)))

SerializeSeq ==
    \E len \in SinkLens :
        SinkCall("serialize_seq", len, serialize_seq(sink, byteorder, writer, len))

SerializeMap ==
    \E len \in SinkLens : SinkCall("serialize_map", len, serialize_map(sink, writer, len))

Next == Write \/ WriteAll \/ SerializeSeq \/ SerializeMap

Spec == Init /\ [][Next]_vars

(***************************************************************************)
(* Properties of the sink machine.                                         *)
(***************************************************************************)
Full(w) == written_len(w) = BLen(w.buffer)

\* C3: a write of one byte to a BufferWriter whose written_len equals its
\* capacity returns the capacity error through both CoreWrite
\* implementations, never panics, and leaves the writer as it was.
C3_FullWriteIsError ==
    [][(ser'.op = "write" /\ Full(writer))
        => (ser'.res = "BufferTooSmall" /\ writer' = writer)]_vars

\* C10: serialize_seq and serialize_map with an unknown length (None) return
\* SequenceMustHaveLength and leave the writer (buffer and written_len) as it
\* was.
C10_UnknownLengthRejected ==
    [][(ser'.op \in {"serialize_seq", "serialize_map"} /\ ser'.arg = None)
        => (ser'.res = "SequenceMustHaveLength" /\ writer' = writer)]_vars

\* An unknown length was rejected by a writer that had room for the prefix.
C10_Witness ==
    /\ ser.op = "serialize_seq"
    /\ ser.arg = None
    /\ ser.res = "SequenceMustHaveLength"
    /\ written_len(writer) = 1
    /\ BLen(writer.buffer) = 3

\* C12: a write_all on a &mut BufferWriter that fails because the slice does
\* not fit in the remaining capacity appends no byte: written_len and the
\* buffer are as before the call.
C12_WriteAllAllOrNothing ==
    [][(sink = RefMut /\ ser'.op = "write_all" /\ ser'.res = "BufferTooSmall")
        => (written_len(writer') = written_len(writer) /\ writer'.buffer = writer.buffer)]_vars

\* C13: a BufferWriter over a buffer of capacity C starts with written_len 0;
\* after any write and write_all calls 0 <= written_len <= C and
\* written_buffer has written_len bytes; each call appends to written_buffer
\* exactly the bytes it wrote successfully, in order (all of them when it
\* returns Ok), advances written_len by their number and keeps the capacity.
C13_CursorInvariant ==
    /\ written_len(writer) = 0
    /\ [](/\ 0 <= written_len(writer)
          /\ written_len(writer) <= BLen(writer.buffer)
          /\ BLen(written_buffer(writer)) = written_len(writer))
    /\ [][ser'.op \in {"write", "write_all"}
            => LET k == written_len(writer') - written_len(writer)
               IN /\ k \in 0..Len(ser'.arg)
                  /\ ser'.res = "Ok" => k = Len(ser'.arg)
                  /\ written_buffer(writer')
                        = BCat(written_buffer(writer), BTake(BOf(ser'.arg), k))
                  /\ BLen(writer'.buffer) = BLen(writer.buffer)]_vars

\* A write and a write_all have filled a buffer of capacity 3.
C13_Witness ==
    /\ ser.op = "write_all" /\ ser.arg = <<0, 255>> /\ ser.res = "Ok"
    /\ writer = [buffer |-> BOf(<<1, 0, 255>>), index |-> 3]

(***************************************************************************)
(* The codec machine: one serialize() call on a value, then one            *)
(* deserialize() call on what was written (tests/simple.rs); or one        *)
(* deserialize() call of a type on a raw buffer.                           *)
(***************************************************************************)
MapT(kt, vt) == [k |-> "map", key |-> kt, val |-> vt]
EnumT == [k |-> "enum"]
MapValue(kt, vt, pairs) == [k |-> "map", key |-> kt, val |-> vt, v |-> pairs]
EnumValue(shape, idx, fields) == [k |-> "enum", shape |-> shape, idx |-> idx, v |-> fields]
SeqValue(t, elems) == [k |-> "seq", of |-> t, v |-> elems]

\* A sequence whose Serialize impl calls serialize_seq(None): its iterator
\* has no exact size.
IterValue(t, elems) == [k |-> "iter", of |-> t, v |-> elems]

\* n as a limbs value of w limbs, n < 256.
Limbs(w, n) == [i \in 1..w |-> IF i = w THEN n ELSE 0]

\* "tesT", b"test", and the two-byte scalar U+00E9.
Str_tesT == BOf(<<116, 101, 115, 84>>)
Bytes_test == BOf(<<116, 101, 115, 116>>)
Str_e_acute == BOf(<<195, 169>>)

\* The longest string whose length fits the u16 prefix, and the next one.
LongStr == Run(97, U16Range - 1)
TooLongStr == Run(97, U16Range)

\* tests/simple.rs: TestStruct.
TestStruct(a, b, c, opt) ==
    StructValue(<<U8Value(a), U16Value(b), U32Value(c), U64Value(Limbs(8, 4)),
                  U128Value(Limbs(16, 5)), OptionValue(U8T, opt),
                  TupleValue(<<U8Value(7), U8Value(8), U8Value(9)>>)>>)

\* tests/simple.rs: the tuple (u16, u32, &[u8], &str).
TestTuple(a, b, bytes, str) ==
    TupleValue(<<U16Value(a), U32Value(b), SliceValue(bytes), StrValue(str)>>)

StructValues ==
    {TestStruct(a, b, c, opt) :
        a \in {1, 255}, b \in {2, 258}, c \in {Limbs(4, 3), <<1, 2, 3, 4>>},
        opt \in {None, Some(U8Value(6))}}

TupleValues ==
    {TestTuple(a, Limbs(4, 2), bytes, str) :
        a \in {1, 513}, bytes \in {<<>>, Bytes_test}, str \in {<<>>, Str_tesT, Str_e_acute}}
    \cup {TestTuple(1, Limbs(4, 2), Bytes_test, TooLongStr),
          TupleValue(<<OptionValue(U16T, Some(U16Value(258))), BytesValue(BOf(<<7, 8>>))>>)}

\* Integers of every width, the signed ones negative and positive.
IntegerValues ==
    {U8Value(200), U16Value(2), U16Value(65534), U32Value(<<1, 2, 3, 4>>),
     U64Value([i \in 1..8 |-> i]), U128Value([i \in 1..16 |-> i]),
     [k |-> "i8", v |-> -1], [k |-> "i8", v |-> 127], [k |-> "i8", v |-> -128],
     [k |-> "i16", v |-> -2], [k |-> "i16", v |-> 258], [k |-> "i16", v |-> -32768],
     [k |-> "i32", v |-> <<255, 255, 255, 254>>], [k |-> "i64", v |-> Limbs(8, 3)],
     [k |-> "i128", v |-> [i \in 1..16 |-> 255]]}

ScalarValues ==
    IntegerValues \cup
    {BoolValue(TRUE), BoolValue(FALSE), OptionValue(U8T, None),
     OptionValue(U8T, Some(U8Value(6))), OptionValue(U16T, Some(U16Value(258))), Unit}

LengthValues ==
    {StrValue(s) : s \in {<<>>, Str_tesT, LongStr, TooLongStr}}
    \cup {BytesValue(s) : s \in {<<>>, Zeros(1), Bytes_test, TooLongStr}}
    \cup {SliceValue(s) : s \in {<<>>, BOf(<<0, 1>>)}}
    \cup {SeqValue(U16T, e) : e \in {<<>>, <<U16Value(1)>>, <<U16Value(258), U16Value(2)>>}}

MapValues ==
    {MapValue(U8T, U8T, p) :
        p \in {<<>>, << <<U8Value(1), U8Value(2)>> >>,
               << <<U8Value(3), U8Value(4)>>, <<U8Value(1), U8Value(2)>> >>,
               << <<U8Value(0), U8Value(0)>>, <<U8Value(0), U8Value(0)>>,
                  <<U8Value(0), U8Value(0)>>, <<U8Value(0), U8Value(0)>> >>}}
    \cup {MapValue(U8T, U16T, << <<U8Value(9), U16Value(258)>> >>)}

EnumValues ==
    {EnumValue("unit", 0, <<>>), EnumValue("unit", 1, <<>>),
     EnumValue("newtype", 2, <<U8Value(7)>>),
     EnumValue("tuple", 3, <<U8Value(7), U16Value(258)>>),
     EnumValue("struct", 4, <<U16Value(2), BoolValue(TRUE)>>)}

\* A unit struct, newtype structs, a tuple struct and arrays.
WrapperValues ==
    {[k |-> "unit_struct"],
     [k |-> "newtype_struct", v |-> <<U16Value(258)>>],
     [k |-> "newtype_struct", v |-> <<StrValue(Str_tesT)>>],
     [k |-> "newtype_struct", v |-> <<TupleValue(<<U8Value(1), Unit>>)>>],
     [k |-> "tuple_struct", v |-> <<U8Value(1), U16Value(2)>>],
     TupleValue(<<>>),
     TupleValue(<<U16Value(1), U16Value(2), U16Value(3)>>)}

IterValues ==
    LET it == IterValue(U8T, <<U8Value(7)>>)
    IN {it, TupleValue(<<it, U8Value(1)>>), TupleValue(<<U8Value(1), it, U8Value(2)>>),
        OptionValue([k |-> "iter", of |-> U8T], Some(it)),
        EnumValue("newtype", 2, <<it>>)}

Values == StructValues \cup TupleValues \cup ScalarValues \cup LengthValues
            \cup MapValues \cup EnumValues \cup IterValues \cup WrapperValues

\* The bytes serialize() needs for x: what it writes into an ample buffer.
Ample == U16Range + 64

WireLen(x) == written_len(serialize(RefMut, BE, BufferWriter_new(Zeros(Ample)), x).w)

\* One byte too few, exactly enough, and up to MaxPad bytes to spare; and the
\* shortest buffers, which fail on the first bytes.
CodecCapacities(x) ==
    {c \in (WireLen(x) - 1)..(WireLen(x) + MaxPad) : c >= 0} \cup 0..MaxShort

\* Raw buffers: every tag byte, followed by up to 3 more bytes.
RawTails == {<<>>, <<7>>, <<1, 2>>, <<0, 1, 2>>}

RawCases ==
    {[ty |-> t, buf |-> BOf(<<b>> \o tl)] :
        t \in {BoolT, OptionT(U8T), OptionT(U16T)}, b \in 0..255, tl \in RawTails}
    \cup {[ty |-> t, buf |-> <<>>] : t \in {BoolT, OptionT(U8T), OptionT(U16T), EnumT}}

InitCodec ==
    /\ byteorder \in ByteOrders
    /\ ser = SerIdle
    /\ reader = <<>>
    /\ \/ /\ sink \in Sinks
          /\ value \in Values
          /\ \E c \in CodecCapacities(value) : writer = BufferWriter_new(Zeros(c))
          /\ input = <<>>
          /\ de = DeIdle(TypeOf(value))
       \/ /\ sink = RefMut
          /\ value = NoValue
          /\ writer = BufferWriter_new(<<>>)
          /\ \E c \in RawCases : input = c.buf /\ de = DeIdle(c.ty)

\* serialize::<_, _, B>(&value, writer)
CallSerialize ==
    /\ value # NoValue
    /\ ser.op = "new"
    /\ LET result == serialize(sink, byteorder, writer, value)
       IN /\ writer' = result.w
          /\ ser' = [op |-> "serialize", arg |-> <<>>, res |-> result.res]
    /\ UNCHANGED <<byteorder, sink, value, input, reader, de>>

\* A second run: serialize::<_, _, B>(&value, writer) on a fresh BufferWriter
\* over another buffer of the same length, whatever that buffer holds.
FreshFill == {0, 255}

SerializeAgain ==
    /\ ser.op = "serialize"
    /\ \E fill \in FreshFill :
        LET result == serialize(sink, byteorder,
                                BufferWriter_new(Run(fill, BLen(writer.buffer))), value)
        IN /\ writer' = result.w
           /\ ser' = [op |-> "serialize_again", arg |-> <<>>, res |-> result.res]
    /\ UNCHANGED <<byteorder, sink, value, input, reader, de>>

DecodeFrom(op, buf) ==
    LET result == deserialize(byteorder, buf, de.ty)
    IN /\ input' = buf
       /\ reader' = result.r
       /\ de' = [op |-> op, ty |-> de.ty, arg |-> <<>>, res |-> result.res, val |-> result.val]
       /\ UNCHANGED <<byteorder, sink, writer, ser, value>>

\* deserialize::<T, _, B>(writer.written_buffer())
DeserializeWritten ==
    /\ ser.op = "serialize" /\ ser.res = "Ok" /\ de.op = "new"
    /\ DecodeFrom("deserialize_written", written_buffer(writer))

\* deserialize::<T, _, B>(&buffer[..]), tests/simple.rs
DeserializeBuffer ==
    /\ ser.op = "serialize" /\ ser.res = "Ok" /\ de.op = "new"
    /\ DecodeFrom("deserialize_buffer", writer.buffer)

\* deserialize::<T, _, B>(..) on a source that holds the written bytes
\* followed by other bytes.
TrailingBytes == {<<7>>, <<255, 1>>, <<0, 0, 0, 0, 0, 0, 0, 0>>}

DeserializeTrailing ==
    /\ ser.op = "serialize" /\ ser.res = "Ok" /\ de.op = "new"
    /\ \E tail \in TrailingBytes :
            DecodeFrom("deserialize_trailing", BCat(written_buffer(writer), BOf(tail)))

\* deserialize::<T, _, B>(input) on a raw buffer
DeserializeRaw ==
    /\ value = NoValue /\ de.op = "new"
    /\ DecodeFrom("deserialize_raw", input)

NextCodec ==
    \/ CallSerialize
    \/ SerializeAgain
    \/ DeserializeWritten
    \/ DeserializeBuffer
    \/ DeserializeTrailing
    \/ DeserializeRaw

SpecCodec == InitCodec /\ [][NextCodec]_vars

(***************************************************************************)
(* The char machine: the codec machine on char values and on raw buffers   *)
(* decoded as a char.                                                      *)
(***************************************************************************)
CharT == [k |-> "char"]
CharValue(c) == [k |-> "char", v |-> c]

\* Code points at the ends of every width, around the surrogate gap, and a few
\* inside.
CharCodes == {0, 65, 127, 128, 233, 2047, 2048, 8364, 55295, 57344, 65535, 65536,
              128512, 1114111}

LeadBytes == 0..255
SecondBytes == {127, 128, 143, 144, 159, 160, 191, 192}
LaterBytes == {127, 128, 191, 192}

CharBuffers ==
    {<<a>> : a \in LeadBytes}
    \cup {<<a, b>> : a \in LeadBytes, b \in SecondBytes}
    \cup {<<a, b, c>> : a \in LeadBytes, b \in SecondBytes, c \in LaterBytes}
    \cup {<<a, b, c, d>> : a \in LeadBytes, b \in SecondBytes, c \in LaterBytes, d \in LaterBytes}

InitChar ==
    /\ ser = SerIdle
    /\ reader = <<>>
    /\ \/ /\ byteorder \in ByteOrders
          /\ sink \in Sinks
          /\ \E c \in CharCodes : value = CharValue(c)
          /\ \E c \in CodecCapacities(value) : writer = BufferWriter_new(Zeros(c))
          /\ input = <<>>
          /\ de = DeIdle(CharT)
       \/ /\ byteorder = BE
          /\ sink = RefMut
          /\ value = NoValue
          /\ writer = BufferWriter_new(<<>>)
          /\ \E c \in CharBuffers : input = BOf(c)
          /\ de = DeIdle(CharT)

SpecChar == InitChar /\ [][NextCodec]_vars

(***************************************************************************)
(* The source machine: a &[u8] source over a short buffer and a            *)
(* Deserializer over it, driven by any sequence of calls.                  *)
(***************************************************************************)
SourceBytes == {0, 1, 2, 97}

SourceBuffers == UNION {[1..n -> SourceBytes] : n \in 0..MaxInput}

SourceTypes == {U8T, U16T, BoolT, OptionT(U8T), StrT, BytesT, SliceT, TupleT(<<U8T, U16T>>)}

InitSource ==
    /\ byteorder \in ByteOrders
    /\ sink = RefMut
    /\ writer = BufferWriter_new(<<>>)
    /\ ser = SerIdle
    /\ value = NoValue
    /\ \E b \in SourceBuffers : input = BOf(b)
    /\ reader = input
    /\ de = DeIdle(NoValue)

SourceCall(op, t, arg, result) ==
    /\ de.res # "panic"
    /\ reader' = result.r
    /\ de' = [op |-> op, ty |-> t, arg |-> arg, res |-> result.res, val |-> result.val]
    /\ UNCHANGED <<byteorder, sink, writer, ser, value, input>>

Read ==
    LET b == read(reader)
    IN SourceCall("read", U8T, <<>>, [r |-> b.r, res |-> b.res, val |-> U8Value(b.val)])

ReadRange ==
    \E len \in 0..MaxRequest :
        LET s == read_range(reader, len)
        IN SourceCall("read_range", SliceT, <<len>>,
                      [r |-> s.r, res |-> s.res, val |-> SliceValue(s.val)])

\* T::deserialize(&mut deserializer) on the Deserializer over the source.
DeserializeNext ==
    \E t \in SourceTypes : SourceCall("deserialize", t, <<>>, Deserialize(byteorder, reader, t))

NextSource == Read \/ ReadRange \/ DeserializeNext

SpecSource == InitSource /\ [][NextSource]_vars

(***************************************************************************)
(* The cursor machine: an Access of deserialize_tuple (de.ty a sequence    *)
(* type) or of deserialize_map (de.ty a map type) over a &[u8] source,     *)
(* created with a count (de.arg) and driven by any sequence of calls of    *)
(* its visitor.                                                            *)
(***************************************************************************)
SeqT(t) == [k |-> "seq", of |-> t]

AccessTypes == {SeqT(U8T), SeqT(BoolT), SeqT(U16T), MapT(U8T, BoolT)}

InitAccess ==
    /\ byteorder \in ByteOrders
    /\ sink = RefMut
    /\ writer = BufferWriter_new(<<>>)
    /\ ser = SerIdle
    /\ value = NoValue
    /\ \E b \in SourceBuffers : input = BOf(b)
    /\ reader = input
    /\ \E t \in AccessTypes, len \in 0..MaxElems :
          de = [op |-> IF t.k = "map" THEN "deserialize_map" ELSE "deserialize_tuple",
                ty |-> t, arg |-> <<len>>, res |-> "Ok", val |-> NoValue]

\* A call on the Access, e what it did: the count (len) and the source (r)
\* after the call, and what the call returned (res, val: None for Ok(None)).
AccessCall(op, e) ==
    /\ de.res # "panic"
    /\ reader' = e.r
    /\ de' = [op |-> op, ty |-> de.ty, arg |-> <<e.len>>, res |-> e.res,
              val |-> IF e.val = None THEN NoValue ELSE e.val[1]]
    /\ UNCHANGED <<byteorder, sink, writer, ser, value, input>>

\* A call that leaves the count as it is and returns v.
Keeping(len, v) == [len |-> len, r |-> v.r, res |-> v.res, val |-> Some(v.val)]

NextElementSeed ==
    /\ de.ty.k = "seq"
    /\ AccessCall("next_element_seed",
                  Access_next_element_seed(byteorder, reader, de.arg[1], de.ty.of))

NextKeySeed ==
    /\ de.ty.k = "map"
    /\ AccessCall("next_key_seed",
                  Access_next_key_seed(byteorder, reader, de.arg[1], de.ty.key))

NextValueSeed ==
    /\ de.ty.k = "map"
    /\ AccessCall("next_value_seed",
                  Keeping(de.arg[1], Access_next_value_seed(byteorder, reader, de.ty.val)))

SizeHint ==
    AccessCall("size_hint",
               Keeping(de.arg[1], [r |-> reader, res |-> "Ok",
                                   val |-> [k |-> "usize", v |-> Access_size_hint(de.arg[1])[1]]]))

NextAccess == NextElementSeed \/ NextKeySeed \/ NextValueSeed \/ SizeHint

SpecAccess == InitAccess /\ [][NextAccess]_vars

(***************************************************************************)
(* Properties of the cursor machine.                                       *)
(***************************************************************************)
\* C17: the count of a cursor goes down by one with each element (key) it
\* decodes successfully and stays as it is when the element decode fails;
\* size_hint returns it; at zero the cursor reports exhaustion (Ok(None))
\* and reads no byte, whatever the source still holds.
C17_CursorCount ==
    [][/\ (de'.op \in {"next_element_seed", "next_key_seed"} /\ de'.res # "panic")
            => (/\ de'.arg[1] = de.arg[1] - (IF de'.res = "Ok" /\ de'.val # NoValue
                                              THEN 1 ELSE 0)
                /\ de.arg[1] = 0 => (de'.res = "Ok" /\ de'.val = NoValue /\ reader' = reader))
       /\ de'.op = "size_hint" => (de'.val.v = de.arg[1] /\ de'.arg = de.arg)]_vars

(***************************************************************************)
(* Properties of the source machine.                                       *)
(***************************************************************************)
Consumed == BLen(input) - BLen(reader)

\* C2: a read_range(n) with n above the bytes that remain, and a read() of an
\* exhausted source, return an error (no panic, no shorter slice) and leave
\* the source where it was; so a u8, u16 or bool asked of a source one byte
\* short fails with DeserializeError::Read.
C2_ExhaustionIsError ==
    [][/\ (de'.op = "read_range" /\ de'.arg[1] > BLen(reader))
            => (de'.res = "Err" /\ reader' = reader)
       /\ (de'.op = "read" /\ BLen(reader) = 0)
            => (de'.res = "Err" /\ reader' = reader)
       /\ (de'.op = "deserialize" /\ de'.ty.k \in {"u8", "bool"} /\ BLen(reader) = 0)
            => (de'.res = "Read" /\ reader' = reader)
       /\ (de'.op = "deserialize" /\ de'.ty.k = "u16" /\ BLen(reader) = 1)
            => (de'.res = "Read" /\ reader' = reader)]_vars

\* C18: the remaining view of a &[u8] source is always the input buffer from
\* the offset reached on; a successful read_range(n) at offset p returns the
\* n bytes input[p .. p+n] and leaves the view input[p+n ..], so the bytes
\* before p, the returned slice and the remaining view concatenate to the
\* input buffer.
C18_SourcePartition ==
    /\ [](reader = BDrop(input, Consumed))
    /\ [][(de'.op = "read_range" /\ de'.res = "Ok")
            => LET n == de'.arg[1]
                   p == Consumed
               IN /\ BLen(de'.val.v) = n
                  /\ de'.val.v = BTake(BDrop(input, p), n)
                  /\ reader' = BDrop(input, p + n)
                  /\ BCat(BTake(input, p), BCat(de'.val.v, reader')) = input]_vars

\* read_range(2) at offset 1 of 00 01 02 61 returned 01 02 and left 61.
C18_Witness ==
    /\ input = BOf(<<0, 1, 2, 97>>)
    /\ de.op = "read_range" /\ de.arg = <<2>> /\ de.res = "Ok"
    /\ de.val = SliceValue(BOf(<<1, 2>>))
    /\ reader = Run(97, 1)

\* The 16-bit length prefix found at offset p of the input buffer.
PrefixAt(p) ==
    IF byteorder = BE
    THEN BAt(input, p + 1) * 256 + BAt(input, p + 2)
    ELSE BAt(input, p + 2) * 256 + BAt(input, p + 1)

\* C11: a str or byte string decoded with the source at offset p of the input
\* buffer and length prefix L is the range [p+2, p+2+L) of the input buffer,
\* and the source is at offset p+2+L afterwards.
C11_BorrowedRange ==
    [][(de'.op = "deserialize" /\ de'.ty.k \in {"str", "bytes", "slice"} /\ de'.res = "Ok")
        => LET p == Consumed
               L == PrefixAt(p)
           IN /\ BLen(de'.val.v) = L
              /\ de'.val.v = BTake(BDrop(input, p + 2), L)
              /\ BLen(input) - BLen(reader') = p + 2 + L]_vars

\* A one-byte str was decoded from offset 1 of a four-byte buffer.
C11_Witness ==
    /\ byteorder = BE
    /\ input = BOf(<<2, 0, 1, 97>>)
    /\ de.op = "deserialize" /\ de.ty = StrT /\ de.res = "Ok"
    /\ de.val = StrValue(Run(97, 1))
    /\ reader = <<>>

(***************************************************************************)
(* Properties of the codec machine.                                        *)
(***************************************************************************)
Written == written_buffer(writer)

Serialized == ser.op = "serialize" /\ ser.res = "Ok"

\* C1: a struct or tuple of unsigned integers, Options of them, fixed-size
\* byte arrays, byte strings and strings, serialized into a BufferWriter of
\* sufficient capacity and deserialized with the same byte order from the
\* written buffer, comes back equal.
C1_RoundTrip ==
    (de.op = "deserialize_written" /\ value.k \in {"struct", "tuple"})
        => (de.res = "Ok" /\ de.val = value)

\* C4: a map of n pairs is written as one byte holding n followed by
\* key1, value1, ..., keyn, valuen, and deserialize_map reads exactly that
\* one byte as the pair count, so that the written map decodes to the same
\* pairs in the same order.
MapPairsWire(B, pairs) ==
    LET w == serialize(RefMut, B, BufferWriter_new(Zeros(4 * Len(pairs))),
                       TupleValue([i \in 1..(2 * Len(pairs)) |->
                                      pairs[(i + 1) \div 2][2 - (i % 2)]])).w
    IN written_buffer(w)

C4_MapLengthSymmetric ==
    /\ (Serialized /\ value.k = "map")
            => (/\ Written # <<>>
                /\ BAt(Written, 1) = Len(value.v)
                /\ BDrop(Written, 1) = MapPairsWire(byteorder, value.v))
    /\ (de.op = "deserialize_written" /\ value.k = "map")
            => (de.res = "Ok" /\ de.val = value /\ Consumed = BLen(input))

\* C5: an enum value is written as its 1-byte variant index followed by its
\* payload, and deserializing what was written returns the value, without
\* aborting.
C5_EnumRoundTrip ==
    /\ (Serialized /\ value.k = "enum")
            => (/\ Written # <<>>
                /\ BAt(Written, 1) = value.idx
                /\ BDrop(Written, 1) = written_buffer(
                        serialize(RefMut, byteorder, BufferWriter_new(Zeros(8)),
                                  TupleValue(value.v)).w))
    /\ (de.op = "deserialize_written" /\ value.k = "enum")
            => (de.res = "Ok" /\ de.val = value)

\* C6: the 16-bit prefix written for a string, byte string or sequence of
\* length L equals L, the number of payload bytes / elements written after
\* it, and the decoder consumes as many payload bytes / elements as the
\* prefix states.
Prefixed == {"str", "bytes", "slice", "seq"}

BytePayload == {"str", "bytes", "slice"}

Prefix(buf) ==
    IF byteorder = BE THEN BAt(buf, 1) * 256 + BAt(buf, 2) ELSE BAt(buf, 2) * 256 + BAt(buf, 1)

PayloadLen(x) == IF x.k \in BytePayload THEN BLen(x.v) ELSE Len(x.v)

C6_LengthPrefixExact ==
    /\ (Serialized /\ value.k \in Prefixed)
            => (/\ BLen(Written) >= 2
                /\ Prefix(Written) = PayloadLen(value)
                /\ value.k \in BytePayload => BLen(Written) = 2 + PayloadLen(value))
    /\ (de.op \in {"deserialize_written", "deserialize_buffer"} /\ de.res = "Ok"
            /\ de.ty.k \in Prefixed)
            => (/\ PayloadLen(de.val) = Prefix(input)
                /\ de.ty.k \in BytePayload => Consumed = 2 + Prefix(input))

\* C16: serializing the same value again with the same byte order into a
\* fresh BufferWriter of the same capacity returns the same result (Ok or
\* the same error) and leaves the same written_len and the same
\* written_buffer as the first run.
C16_Deterministic ==
    [][ser'.op = "serialize_again"
        => (/\ ser'.res = ser.res
            /\ written_len(writer') = written_len(writer)
            /\ written_buffer(writer') = written_buffer(writer))]_vars

\* The second run wrote the u16 2 into a buffer that held FF FF FF.
C16_Witness ==
    /\ ser.op = "serialize_again" /\ ser.res = "Ok"
    /\ byteorder = BE
    /\ value = U16Value(2)
    /\ writer = [buffer |-> BOf(<<0, 2, 255>>), index |-> 2]

\* C19: what serialize() writes and returns through a &mut BufferWriter of
\* capacity C is what it writes and returns with room to spare, cut at the
\* first failure: when the unbounded output is longer than C the result is
\* SerializeError::Write and the C bytes written are the first C bytes of it, and
\* otherwise the result and the bytes are the same; so a length check that
\* fails is returned with nothing written after it, and a tag or prefix
\* that does not fit is not followed by the nested value or the payload.
Unbounded == serialize(RefMut, byteorder, BufferWriter_new(Zeros(Ample)), value)

C19_FirstFailureAborts ==
    (ser.op = "serialize" /\ sink = RefMut)
        => LET all == written_buffer(Unbounded.w)
               C == BLen(writer.buffer)
           IN /\ ser.res = IF BLen(all) > C THEN "Write" ELSE Unbounded.res
              /\ Written = BTake(all, C)
              /\ (ser.res = "SequenceMustHaveLength" /\ value.k = "tuple"
                    /\ value.v[1].k = "iter") => Written = <<>>

\* Some(sequence of unknown length) into a buffer of capacity 0: the tag byte
\* did not fit and the length check of the nested value was not reached.
C19_Witness ==
    /\ sink = RefMut
    /\ value.k = "option" /\ value.v # None /\ value.v[1].k = "iter"
    /\ writer = BufferWriter_new(<<>>)
    /\ ser.op = "serialize" /\ ser.res = "Write"

\* C20: a tuple, tuple struct, struct or array is written as the encodings
\* of its fields one after the other in declaration order, with nothing
\* before, between or after them; a unit and a unit struct as no byte; a
\* newtype struct as its wrapped value; and after the length or variant
\* index of a sequence, map or enum variant come the encodings of its
\* elements and nothing else, so that closing a compound writes no byte.
Enc(x) == written_buffer(serialize(RefMut, byteorder, BufferWriter_new(Zeros(Ample)), x).w)

RECURSIVE ConcatEnc(_)
ConcatEnc(xs) == IF xs = <<>> THEN <<>> ELSE BCat(Enc(Head(xs)), ConcatEnc(Tail(xs)))

\* A map's keys and values in the order they are written.
Flatten(pairs) == [i \in 1..(2 * Len(pairs)) |-> pairs[(i + 1) \div 2][2 - (i % 2)]]

C20_CompoundIsConcatenation ==
    /\ (Serialized /\ value.k \in {"tuple", "tuple_struct", "struct"})
            => Written = ConcatEnc(value.v)
    /\ (Serialized /\ value.k \in {"unit", "unit_struct"}) => Written = <<>>
    /\ (Serialized /\ value.k = "newtype_struct") => Written = Enc(value.v[1])
    /\ (Serialized /\ value.k = "seq") => BDrop(Written, 2) = ConcatEnc(value.v)
    /\ (Serialized /\ value.k = "map") => BDrop(Written, 1) = ConcatEnc(Flatten(value.v))
    /\ (Serialized /\ value.k = "enum") => BDrop(Written, 1) = ConcatEnc(value.v)

\* The tuple (1u16, 2u32, b"test", "tesT") of tests/simple.rs, big-endian.
C20_Witness ==
    /\ Serialized
    /\ byteorder = BE
    /\ value = TestTuple(1, Limbs(4, 2), Bytes_test, Str_tesT)
    /\ Written = BOf(<<0, 1, 0, 0, 0, 2, 0, 4, 116, 101, 115, 116, 0, 4, 116, 101, 115, 84>>)
    /\ BLen(writer.buffer) = 19

\* C21: deserialize of the value's type with the same byte order, on a
\* source that holds the k bytes serialize wrote followed by any other
\* bytes, returns the value and leaves the source exactly k bytes on, the
\* trailing bytes unread.
C21_ConsumesExactlyWritten ==
    (de.op \in {"deserialize_buffer", "deserialize_trailing"})
        => (/\ de.res = "Ok"
            /\ de.val = value
            /\ Consumed = written_len(writer)
            /\ reader = BDrop(input, written_len(writer)))

\* C14: an 8-bit integer is written as its one byte in both byte orders; a
\* 16/32/64/128-bit integer is written in exactly 2/4/8/16 bytes, most
\* significant byte first in big-endian and last in little-endian; the 16-bit
\* length prefix of a payload is written in the same order; and decoding
\* what was written with the same order returns the integer, having read
\* exactly its width.
IntKinds == {"u8", "i8", "u16", "i16", "u32", "i32", "u64", "i64", "u128", "i128"}

IntWidth(k) ==
    CASE k \in {"u8", "i8"} -> 1 [] k \in {"u16", "i16"} -> 2 [] k \in {"u32", "i32"} -> 4
      [] k \in {"u64", "i64"} -> 8 [] k \in {"u128", "i128"} -> 16

\* The bytes of an integer value, most significant first.
IntBytes(x) ==
    CASE x.k = "u8" -> <<x.v>>
      [] x.k = "i8" -> <<IF x.v < 0 THEN x.v + 256 ELSE x.v>>
      [] x.k = "u16" -> <<x.v \div 256, x.v % 256>>
      [] x.k = "i16" -> LET u == IF x.v < 0 THEN x.v + 65536 ELSE x.v IN <<u \div 256, u % 256>>
      [] OTHER -> x.v

InOrder(bytes, buf) ==
    /\ BLen(buf) = Len(bytes)
    /\ \A i \in 1..Len(bytes) :
            BAt(buf, i) = IF byteorder = BE THEN bytes[i] ELSE bytes[Len(bytes) + 1 - i]

C14_FixedWidthByteOrder ==
    /\ (Serialized /\ value.k \in IntKinds)
            => (BLen(Written) = IntWidth(value.k) /\ InOrder(IntBytes(value), Written))
    /\ (Serialized /\ value.k \in Prefixed /\ PayloadLen(value) < 65536)
            => InOrder(IntBytes(U16Value(PayloadLen(value))), BTake(Written, 2))
    /\ (de.op \in {"deserialize_written", "deserialize_buffer"} /\ value.k \in IntKinds)
            => (de.res = "Ok" /\ de.val = value /\ Consumed = IntWidth(value.k))

\* The i16 -2 was written little-endian as FE FF and decoded back.
C14_Witness ==
    /\ byteorder = LE
    /\ value = [k |-> "i16", v |-> -2]
    /\ de.op = "deserialize_written" /\ de.res = "Ok" /\ de.val = value
    /\ input = BOf(<<254, 255>>)

\* C7: where a bool is expected, byte 1 decodes to true, byte 0 to false and
\* any other byte b fails with InvalidBoolValue(b); a bool is written as
\* exactly one byte, 1 for true and 0 for false.
C7_BoolBytes ==
    /\ (de.op = "deserialize_raw" /\ de.ty.k = "bool" /\ input # <<>>)
            => (/\ BAt(input, 1) = 1 => (de.res = "Ok" /\ de.val.k = "bool" /\ de.val.v = TRUE)
                /\ BAt(input, 1) = 0 => (de.res = "Ok" /\ de.val.k = "bool" /\ de.val.v = FALSE)
                /\ BAt(input, 1) \notin {0, 1}
                        => (de.res = "InvalidBoolValue" /\ de.val.k = "u8"
                            /\ de.val.v = BAt(input, 1)))
    /\ (Serialized /\ value.k = "bool")
            => Written = Run(IF value.v THEN 1 ELSE 0, 1)

\* Byte 5 was read where a bool was expected.
C7_Witness ==
    /\ de.op = "deserialize_raw" /\ de.ty.k = "bool"
    /\ input = BOf(<<5, 7>>)
    /\ de.res = "InvalidBoolValue" /\ de.val.v = 5

\* C8: where an Option is expected, byte 0 yields None with no further byte
\* consumed, byte 1 yields Some of the value decoded from the bytes that
\* follow, and any other byte b fails with InvalidOptionValue(b) with exactly
\* that one byte consumed.
C8_OptionTag ==
    (de.op = "deserialize_raw" /\ de.ty.k = "option" /\ input # <<>>)
        => (/\ BAt(input, 1) = 0
                    => (de.res = "Ok" /\ de.val.k = "option" /\ de.val.v = None
                        /\ Consumed = 1)
            /\ (BAt(input, 1) = 1 /\ de.ty.of.k = "u8" /\ BLen(input) >= 2)
                    => (de.res = "Ok" /\ de.val.k = "option"
                        /\ de.val.v = Some(U8Value(BAt(input, 2))) /\ Consumed = 2)
            /\ (BAt(input, 1) = 1 /\ de.ty.of.k = "u16" /\ BLen(input) >= 3)
                    => (de.res = "Ok" /\ de.val.k = "option"
                        /\ de.val.v = Some(U16Value(Prefix(BDrop(input, 1)))) /\ Consumed = 3)
            /\ BAt(input, 1) \notin {0, 1}
                    => (de.res = "InvalidOptionValue" /\ de.val.k = "u8"
                        /\ de.val.v = BAt(input, 1) /\ Consumed = 1))

\* Byte 2 was read where an Option<u16> was expected, with more bytes behind it.
C8_Witness ==
    /\ de.op = "deserialize_raw" /\ de.ty.k = "option" /\ de.ty.of.k = "u16"
    /\ input = BOf(<<2, 1, 2>>)
    /\ de.res = "InvalidOptionValue" /\ de.val.v = 2
    /\ reader = BOf(<<1, 2>>)

(***************************************************************************)
(* Properties of the char machine.                                         *)
(***************************************************************************)
\* The Unicode scalar values: the code points but the surrogates.
IsScalarValue(c) == (c >= 0 /\ c <= 55295) \/ (c >= 57344 /\ c <= 1114111)

\* s is the UTF-8 encoding of a scalar value: encode_utf8 of the code point
\* its payload bits spell gives s back.
IsEncodedScalar(s) == IsScalarValue(first_char(s)) /\ encode_utf8(first_char(s)) = s

\* The leading bytes the claim names: 0x80..0xC1 and 0xF5..0xFF.
InvalidLead(b) == (b >= 128 /\ b <= 193) \/ (b >= 245 /\ b <= 255)

\* The width the leading byte announces: 0xC2..0xDF 2, 0xE0..0xEF 3, 0xF0..0xF4 4.
LeadWidth(b) == IF b <= 223 THEN 2 ELSE IF b <= 239 THEN 3 ELSE 4

\* C9: decoding a char, a leading byte of width 0 (0x80..0xC1, 0xF5..0xFF)
\* fails with InvalidCharEncoding after that one byte was read, and a leading
\* byte of width 2..4 followed by width - 1 bytes that are not well-formed
\* UTF-8 fails with the Utf8 error; neither panics nor returns a char.
C9_InvalidCharIsError ==
    (de.op = "deserialize_raw" /\ de.ty.k = "char" /\ input # <<>>)
        => (/\ InvalidLead(BAt(input, 1)) => (de.res = "InvalidCharEncoding" /\ Consumed = 1)
            /\ (BAt(input, 1) >= 194 /\ BAt(input, 1) <= 244
                    /\ BLen(input) >= LeadWidth(BAt(input, 1))
                    /\ ~IsEncodedScalar(BToSeq(BTake(input, LeadWidth(BAt(input, 1))))))
                    => (de.res = "Utf8" /\ Consumed = LeadWidth(BAt(input, 1))))

\* The leading byte 0xC0 was refused with a byte behind it left unread.
C9_Witness ==
    /\ de.op = "deserialize_raw" /\ de.ty.k = "char"
    /\ input = BOf(<<192, 128>>)
    /\ de.res = "InvalidCharEncoding"
    /\ reader = Run(128, 1)

\* The number of bytes of the UTF-8 encoding of the scalar value c.
Utf8Width(c) == IF c <= 127 THEN 1 ELSE IF c <= 2047 THEN 2 ELSE IF c <= 65535 THEN 3 ELSE 4

\* s is the UTF-8 encoding of c: a leading byte of the width's form, then
\* continuation bytes 10xxxxxx, whose payload bits spell c.
IsUtf8Of(s, c) ==
    /\ Len(s) = Utf8Width(c)
    /\ \A i \in 2..Len(s) : s[i] >= 128 /\ s[i] <= 191
    /\ CASE Len(s) = 1 -> s[1] = c
         [] Len(s) = 2 -> s[1] >= 192 /\ s[1] <= 223 /\ (s[1] - 192) * 64 + (s[2] - 128) = c
         [] Len(s) = 3 ->
               /\ s[1] >= 224 /\ s[1] <= 239
               /\ (s[1] - 224) * 4096 + (s[2] - 128) * 64 + (s[3] - 128) = c
         [] Len(s) = 4 ->
               /\ s[1] >= 240 /\ s[1] <= 247
               /\ (s[1] - 240) * 262144 + (s[2] - 128) * 4096 + (s[3] - 128) * 64
                    + (s[4] - 128) = c

\* C15: a char c is written as the 1 to 4 bytes of its UTF-8 encoding and
\* nothing else; the width table entry of the first written byte is the
\* number of bytes written; decoding what was written returns c, having read
\* exactly that many bytes.
C15_CharRoundTrip ==
    /\ (Serialized /\ value.k = "char")
            => (/\ IsScalarValue(value.v)
                /\ IsUtf8Of(BToSeq(Written), value.v)
                /\ utf8_char_width(BAt(Written, 1)) = BLen(Written))
    /\ (de.op \in {"deserialize_written", "deserialize_buffer"} /\ value.k = "char")
            => (de.res = "Ok" /\ de.val = value /\ Consumed = Utf8Width(value.v))

\* U+20AC was written as E2 82 AC and decoded back from a buffer with a
\* spare byte behind it.
C15_Witness ==
    /\ value = CharValue(8364)
    /\ de.op = "deserialize_buffer" /\ de.res = "Ok" /\ de.val = value
    /\ input = BOf(<<226, 130, 172, 0>>)
    /\ reader = Zeros(1)

====
